---- MODULE Spec2Model ----
(***************************************************************************)
(* Wager / settlement engine of the GRAM roulette bot (src/bot.py).        *)
(*                                                                         *)
(* The persistent state is the three SQLite tables (users, bets, results); *)
(* every helper of the "DB" section opens its own connection and commits,  *)
(* so each helper call is one atomic step.  Handlers run on the worker     *)
(* threads of TeleBot(threaded=True) and every schedule_spin starts its    *)
(* own threading.Timer thread, so the steps of different handlers and      *)
(* timers interleave freely.                                               *)
(*                                                                         *)
(* Texts are sequences of one-character strings, so that the parsing and   *)
(* formatting code is modelled character by character.                     *)
(***************************************************************************)
EXTENDS Integers, Sequences, FiniteSets, TLC

\* ---------------------------------------------------------------------
\* Program constants (src/bot.py:22-25)
\* ---------------------------------------------------------------------
BONUS_AMOUNT == 2500
BONUS_COOLDOWN_SEC == 24 * 60 * 60
GO_DELAY_SEC == 10
MAX_CHOICES == 16

\* ---------------------------------------------------------------------
\* Text helpers
\* ---------------------------------------------------------------------
Digits == <<"0", "1", "2", "3", "4", "5", "6", "7", "8", "9">>

DigitChars == {Digits[i] : i \in 1..10}

\* value of one decimal digit character
DigitVal(c) == (CHOOSE i \in 1..10 : Digits[i] = c) - 1

\* str.isdigit(): non-empty and every character is a digit
IsDigit(s) == Len(s) > 0 /\ \A i \in 1..Len(s) : s[i] \in DigitChars

\* int(s) for a string of decimal digits
RECURSIVE ParseInt(_)
ParseInt(s) ==
    IF Len(s) = 0 THEN 0
    ELSE 10 * ParseInt(SubSeq(s, 1, Len(s) - 1)) + DigitVal(s[Len(s)])

\* str(n) for n >= 0
RECURSIVE IntStr(_)
IntStr(n) ==
    IF n < 10 THEN <<Digits[n + 1]>>
    ELSE IntStr(n \div 10) \o <<Digits[(n % 10) + 1]>>

\* str.lower() on the alphabet of the model (the only cased letter is X)
LowerChar(c) == IF c = "X" THEN "x" ELSE c

Lower(s) == [i \in 1..Len(s) |-> LowerChar(s[i])]

\* str.strip(): drop leading and trailing blanks
RECURSIVE LStrip(_)
LStrip(s) == IF Len(s) > 0 /\ s[1] = " " THEN LStrip(Tail(s)) ELSE s

RECURSIVE RStrip(_)
RStrip(s) ==
    IF Len(s) > 0 /\ s[Len(s)] = " " THEN RStrip(SubSeq(s, 1, Len(s) - 1)) ELSE s

Strip(s) == RStrip(LStrip(s))

\* re.sub(r"\s+", " ", t): every run of blanks becomes one blank
RECURSIVE Squeeze(_)
Squeeze(s) ==
    IF Len(s) < 2 THEN s
    ELSE IF s[1] = " " /\ s[2] = " " THEN Squeeze(Tail(s))
    ELSE <<s[1]>> \o Squeeze(Tail(s))

\* t.split(" "): the pieces between single blanks (empty pieces are kept)
RECURSIVE SplitFrom(_, _)
SplitFrom(s, cur) ==
    IF Len(s) = 0 THEN <<cur>>
    ELSE IF s[1] = " " THEN <<cur>> \o SplitFrom(Tail(s), <<>>)
    ELSE SplitFrom(Tail(s), Append(cur, s[1]))

Split(s) == SplitFrom(s, <<>>)

\* original.split(" ", 1)[1]: everything after the first blank
RECURSIVE AfterFirstBlank(_)
AfterFirstBlank(s) ==
    IF Len(s) = 0 THEN <<>>
    ELSE IF s[1] = " " THEN Tail(s)
    ELSE AfterFirstBlank(Tail(s))

\* " ".join(parts)
RECURSIVE JoinBlank(_)
JoinBlank(parts) ==
    IF Len(parts) = 0 THEN <<>>
    ELSE IF Len(parts) = 1 THEN parts[1]
    ELSE parts[1] \o <<" ">> \o JoinBlank(Tail(parts))

\* ---------------------------------------------------------------------
\* parse_bet_text (src/bot.py:190-249)
\* ---------------------------------------------------------------------
None == [ok |-> FALSE]

\* re.fullmatch(r"(\d{1,2})-(\d{1,2})", c): position of the dash, 0 if no match
DashPos(c) ==
    IF \E p \in 2..3 :
          /\ p < Len(c)
          /\ Len(c) - p \in 1..2
          /\ c[p] = "-"
          /\ IsDigit(SubSeq(c, 1, p - 1))
          /\ IsDigit(SubSeq(c, p + 1, Len(c)))
    THEN CHOOSE p \in 2..3 :
          /\ p < Len(c)
          /\ Len(c) - p \in 1..2
          /\ c[p] = "-"
          /\ IsDigit(SubSeq(c, 1, p - 1))
          /\ IsDigit(SubSeq(c, p + 1, Len(c)))
    ELSE 0

Min(a, b) == IF a < b THEN a ELSE b

Max(a, b) == IF a > b THEN a ELSE b

\* a loop body that forgets the upper limit 36 of a single number
ChoiceCover_nolimit(c) ==
    IF Len(c) = 0 THEN [bad |-> FALSE, nums |-> {}]
    ELSE IF DashPos(c) # 0 THEN
        LET a == ParseInt(SubSeq(c, 1, DashPos(c) - 1))
            b == ParseInt(SubSeq(c, DashPos(c) + 1, Len(c)))
        IN  IF a < 0 \/ b < 0 \/ a > 36 \/ b > 36
            THEN [bad |-> TRUE, nums |-> {}]
            ELSE [bad |-> FALSE, nums |-> Min(a, b)..Max(a, b)]
    ELSE IF IsDigit(c) THEN [bad |-> FALSE, nums |-> {ParseInt(c)}]
    ELSE [bad |-> TRUE, nums |-> {}]

\* one pass of the loop "for c in choices": the numbers the choice covers,
\* or bad when the choice makes parse_bet_text return None
ChoiceCover(c) ==
    IF Len(c) = 0 THEN [bad |-> FALSE, nums |-> {}]
    ELSE IF DashPos(c) # 0 THEN
        LET a == ParseInt(SubSeq(c, 1, DashPos(c) - 1))
            b == ParseInt(SubSeq(c, DashPos(c) + 1, Len(c)))
        IN  IF a < 0 \/ b < 0 \/ a > 36 \/ b > 36
            THEN [bad |-> TRUE, nums |-> {}]
            ELSE [bad |-> FALSE, nums |-> Min(a, b)..Max(a, b)]
    ELSE IF IsDigit(c) THEN
        LET n == ParseInt(c)
        IN  IF n < 0 \/ n > 36
            THEN [bad |-> TRUE, nums |-> {}]
            ELSE [bad |-> FALSE, nums |-> {n}]
    ELSE [bad |-> TRUE, nums |-> {}]

\* choices = parts[1:]; if len(choices) > MAX_CHOICES: choices = choices[:MAX_CHOICES]
Choices(parts) ==
    LET all == Tail(parts)
    IN  IF Len(all) > MAX_CHOICES THEN SubSeq(all, 1, MAX_CHOICES) ELSE all

parse_bet_text(text) ==
    LET t == Squeeze(Lower(Strip(text)))
        parts == Split(t)
    IN  IF Len(parts) < 2 THEN None
        ELSE IF ~IsDigit(parts[1]) THEN None
        ELSE IF ParseInt(parts[1]) <= 0 THEN None
        ELSE LET choices == Choices(parts)
                 covered == UNION {ChoiceCover(choices[i]).nums : i \in 1..Len(choices)}
             IN  IF \E i \in 1..Len(choices) : ChoiceCover(choices[i]).bad THEN None
                 ELSE IF covered = {} THEN None
                 ELSE [ok |-> TRUE, amount |-> ParseInt(parts[1]),
                       covered |-> covered, original |-> t]

\* ---------------------------------------------------------------------
\* IEEE-754 binary64 arithmetic, as far as calc_payout uses it.
\* A float is [m, e]: m the significand as a sequence of bits, most
\* significant first, e the weight of its last bit; its value is m * 2^e.
\* Exact integers wider than the machine word are sequences of limbs in base
\* 2^15, least significant first.
\* ---------------------------------------------------------------------
MANT_BITS == 53

LIMB_BITS == 15

LIMB == 2 ^ LIMB_BITS

\* number of binary digits of n (0 <= n < 2^30)
BitLen(n) == CHOOSE w \in 0..30 : n < 2 ^ w /\ (w = 0 \/ n >= 2 ^ (w - 1))

\* the w low binary digits of v, most significant first
FixBits(v, w) == [i \in 1..w |-> (v \div (2 ^ (w - i))) % 2]

BitsOf(n) == FixBits(n, BitLen(n))

\* value of a bit sequence (at most 30 bits)
RECURSIVE BitsVal(_)
BitsVal(b) ==
    IF Len(b) = 0 THEN 0
    ELSE IF Len(b) = 1 THEN b[1]
    ELSE LET h == Len(b) \div 2
         IN  BitsVal(SubSeq(b, 1, h)) * (2 ^ (Len(b) - h)) + BitsVal(SubSeq(b, h + 1, Len(b)))

\* drop the leading zero digits
StripZeros(b) ==
    IF \A i \in 1..Len(b) : b[i] = 0 THEN <<>>
    ELSE SubSeq(b, CHOOSE i \in 1..Len(b) : b[i] = 1 /\ \A j \in 1..(i - 1) : b[j] = 0, Len(b))

\* the first n binary digits of r / k after the point (0 <= r < k < 64), and
\* the remainder left after them; 24 digits at a time
RECURSIVE FracBits(_, _, _)
FracBits(r, k, n) ==
    IF n = 0 THEN [bits |-> <<>>, rem |-> r]
    ELSE LET c == IF n > 24 THEN 24 ELSE n
             q == (r * (2 ^ c)) \div k
             rest == FracBits((r * (2 ^ c)) % k, k, n - c)
         IN  [bits |-> FixBits(q, c) \o rest.bits, rem |-> rest.rem]

\* number of zero digits of r / k right after the point (0 < r < k)
RECURSIVE LeadZeros(_, _)
LeadZeros(r, k) == IF 2 * r >= k THEN 0 ELSE 1 + LeadZeros(2 * r, k)

\* b + 1
IncBits(b) ==
    IF \A i \in 1..Len(b) : b[i] = 1 THEN <<1>> \o [i \in 1..Len(b) |-> 0]
    ELSE LET p == CHOOSE i \in 1..Len(b) : b[i] = 0 /\ \A j \in (i + 1)..Len(b) : b[j] = 1
         IN  [i \in 1..Len(b) |-> IF i < p THEN b[i] ELSE IF i = p THEN 1 ELSE 0]

\* round-to-nearest, ties-to-even, of the exact value b * 2^e (sticky tells
\* that the exact value has further non-zero digits below b) to MANT_BITS bits
RoundEven(b, e, sticky) ==
    IF Len(b) <= MANT_BITS THEN [m |-> b, e |-> e]
    ELSE LET head == SubSeq(b, 1, MANT_BITS)
             guard == b[MANT_BITS + 1]
             low == sticky \/ \E i \in (MANT_BITS + 2)..Len(b) : b[i] = 1
             up == guard = 1 /\ (low \/ head[MANT_BITS] = 1)
         IN  [m |-> IF up THEN IncBits(head) ELSE head,
              e |-> e + (Len(b) - MANT_BITS)]

\* the double n / k for integers n > 0, 0 < k < 64 (both exact as doubles)
FloatDiv(n, k) ==
    LET ib == BitsOf(n \div k)
        r == n % k
        nfrac == IF Len(ib) > 0 THEN MANT_BITS + 1 - Len(ib)
                 ELSE LeadZeros(r, k) + MANT_BITS + 1
        fr == FracBits(r, k, nfrac)
        all == ib \o fr.bits
        sig == SubSeq(all, Len(all) - MANT_BITS, Len(all))
    IN  RoundEven(sig, 0 - nfrac, fr.rem # 0)

\* the limbs of a bit sequence
ToLimbs(b) ==
    LET n == (Len(b) + LIMB_BITS - 1) \div LIMB_BITS
    IN  [j \in 1..n |->
            BitsVal(SubSeq(b, Max(1, Len(b) - j * LIMB_BITS + 1), Len(b) - (j - 1) * LIMB_BITS))]

\* the bit sequence of a limb sequence, without leading zeros
ToBits(x) ==
    StripZeros([i \in 1..(LIMB_BITS * Len(x)) |->
        LET pos == LIMB_BITS * Len(x) - i
        IN  (x[(pos \div LIMB_BITS) + 1] \div (2 ^ (pos % LIMB_BITS))) % 2])

\* x * h + carry for a limb sequence x and 0 <= h < LIMB
RECURSIVE MulLimbs(_, _, _)
MulLimbs(x, h, carry) ==
    IF Len(x) = 0 THEN <<carry>>
    ELSE LET t == x[1] * h + carry
         IN  <<t % LIMB>> \o MulLimbs(Tail(x), h, t \div LIMB)

\* x + y + carry for limb sequences
RECURSIVE AddLimbs(_, _, _)
AddLimbs(x, y, carry) ==
    IF Len(x) = 0 /\ Len(y) = 0 THEN <<carry>>
    ELSE LET t == (IF Len(x) > 0 THEN x[1] ELSE 0) + (IF Len(y) > 0 THEN y[1] ELSE 0) + carry
         IN  <<t % LIMB>> \o AddLimbs(IF Len(x) > 0 THEN Tail(x) ELSE x,
                                      IF Len(y) > 0 THEN Tail(y) ELSE y, t \div LIMB)

\* the exact product b * a of a bit sequence b and an integer 0 <= a < 2^30
MulBits(b, a) ==
    LET x == ToLimbs(b)
    IN  ToBits(AddLimbs(MulLimbs(x, a % LIMB, 0),
                        <<0>> \o MulLimbs(x, a \div LIMB, 0), 0))

\* the double a * f for an integer a > 0 (exact as a double) and a double f
FloatMul(a, f) == RoundEven(MulBits(f.m, a), f.e, FALSE)

\* int(f) for a double f >= 0: truncation
FloatToInt(f) ==
    IF f.e >= 0 THEN BitsVal(f.m) * (2 ^ f.e)
    ELSE IF Len(f.m) + f.e <= 0 THEN 0
    ELSE BitsVal(SubSeq(f.m, 1, Len(f.m) + f.e))

\* ---------------------------------------------------------------------
\* calc_payout (src/bot.py:251-260)
\* ---------------------------------------------------------------------
calc_payout(amount, covered, spun) ==
    IF spun \notin covered THEN 0
    ELSE LET k == Cardinality(covered)
         IN  IF k <= 0 THEN 0
             ELSE FloatToInt(FloatMul(amount, FloatDiv(36, k)))

\* ---------------------------------------------------------------------
\* fmt_int (src/bot.py:36-43) and the covered column of the bets table
\* ---------------------------------------------------------------------
\* the groups of three digits, most significant group first
RECURSIVE Groups3(_)
Groups3(s) ==
    IF Len(s) = 0 THEN <<>>
    ELSE IF Len(s) <= 3 THEN <<s>>
    ELSE Append(Groups3(SubSeq(s, 1, Len(s) - 3)), SubSeq(s, Len(s) - 2, Len(s)))

fmt_int(n) == JoinBlank(Groups3(IntStr(n)))

\* s.replace(" ", "")
RECURSIVE RemoveBlanks(_)
RemoveBlanks(s) ==
    IF Len(s) = 0 THEN <<>>
    ELSE IF s[1] = " " THEN RemoveBlanks(Tail(s))
    ELSE <<s[1]>> \o RemoveBlanks(Tail(s))

\* sorted(covered)
Sorted(S) ==
    [i \in 1..Cardinality(S) |-> CHOOSE x \in S : Cardinality({y \in S : y < x}) = i - 1]

\* ",".join(parts)
RECURSIVE JoinComma(_)
JoinComma(parts) ==
    IF Len(parts) = 0 THEN <<>>
    ELSE IF Len(parts) = 1 THEN parts[1]
    ELSE LET h == Len(parts) \div 2
         IN  JoinComma(SubSeq(parts, 1, h)) \o <<",">> \o JoinComma(SubSeq(parts, h + 1, Len(parts)))

\* covered_str = ",".join(str(x) for x in sorted(covered))   (upsert_bet)
CoveredStr(covered) ==
    LET srt == Sorted(covered)
    IN  JoinComma([i \in 1..Len(srt) |-> IntStr(srt[i])])

\* s.split(",")
SplitComma(s) ==
    LET commas == Sorted({i \in 1..Len(s) : s[i] = ","})
        n == Len(commas)
    IN  [j \in 1..(n + 1) |->
            SubSeq(s, IF j = 1 THEN 1 ELSE commas[j - 1] + 1,
                      IF j = n + 1 THEN Len(s) ELSE commas[j] - 1)]

\* set(int(x) for x in bet["covered"].split(",") if x.strip().isdigit())   (_run)
CoveredSet(str) ==
    LET xs == SplitComma(str)
    IN  {ParseInt(xs[i]) : i \in {j \in 1..Len(xs) : IsDigit(Strip(xs[j]))}}

\* ---------------------------------------------------------------------
\* Bounds and inputs of the model
\* ---------------------------------------------------------------------
\* requests (updates) handled in one behaviour
MaxOps == 3

\* handlers in flight at the same time (TeleBot worker threads in use)
MaxThreads == 2

\* seconds the clock advances in one behaviour
MaxTime == 10

\* seconds between two observations of the clock
TickStep == 5

\* int(time.time()) when the behaviour starts
StartTime == 100000

Users == {1}

Chats == {1}

\* balances of the users table when the process starts (the table persists
\* across restarts: CREATE TABLE IF NOT EXISTS)
InitBalances == {2500, 10000}

\* wager texts sent to the group: "2500 0" and "55 0-32"
BetTexts ==
    { <<"2", "5", "0", "0", " ", "0">>,
      <<"5", "5", " ", "0", "-", "3", "2">> }

\* amounts of /giveid
GiveAmounts == {2500}

\* secrets.randbelow(37) returns a number of 0..36; the draws of the model:
\* 0 is covered by both wagers, 5 by the second only, 33 by none
Outcomes == {0, 5, 33}

\* the kinds of request; "crash" counts the restarts of the process
OpKinds == {"bet", "go", "repeat", "double", "bonus", "giveid", "resetid", "crash", "log"}

\* ---------------------------------------------------------------------
\* State
\* ---------------------------------------------------------------------
VARIABLES
    now,         \* int(time.time())
    balance,     \* users.balance, by user_id (a missing row reads as 0)
    last_bonus,  \* users.last_bonus_ts, by user_id (a missing row reads as 0)
    bets,        \* the rows of the bets table
    results,     \* the rows of the results table, in id order
    threads,     \* handlers in flight: their position and local variables
    timers,      \* threading.Timer threads of schedule_spin
    msgs,        \* result messages sent to the chats (they carry the buttons)
    ops,         \* history: the number of requests handled so far, by kind
    draws,       \* history: every draw made by _run
    debited,     \* history: every stake debited by a placement
    bal0,        \* history: the balances at the start
    applied,     \* history: the sum of the deltas given to add_balance, by user_id
    inText,      \* parser harness: the text of the message being handled
    handled,     \* parser harness: on_bet_text has run on inText
    pIn,         \* payout harness: the arguments of calc_payout
    pOut,        \* payout harness: its result (-1 before the call)
    shown        \* the chat and the numbers of the log message sent last

vars == <<now, balance, last_bonus, bets, results, threads, timers, msgs,
          ops, draws, debited, bal0, applied, inText, handled, pIn, pOut,
          shown>>

dbVars == <<balance, last_bonus, bets, results>>

histVars == <<draws, debited, bal0, applied>>

harnessVars == <<inText, handled, pIn, pOut, shown>>

\* no log message was sent yet
NoLog == [chat_id |-> 0, lines |-> <<>>]

NoRow == [user_id |-> 0, chat_id |-> 0, amount |-> 0, covered |-> <<>>,
          created_ts |-> 0, original |-> <<>>, bid |-> 0]

\* ---------------------------------------------------------------------
\* DB helpers (src/bot.py:101-186); each is one committed transaction
\* ---------------------------------------------------------------------
get_balance(user_id) == balance[user_id]

get_last_bonus(user_id) == last_bonus[user_id]

\* an add_balance that writes back a balance read earlier, plus the delta
add_balance_stale(bal, user_id, delta) == [bal EXCEPT ![user_id] = bal0[user_id] + delta]

\* UPDATE users SET balance = balance + ? WHERE user_id=?
add_balance(bal, user_id, delta) == [bal EXCEPT ![user_id] = @ + delta]

\* UPDATE users SET balance=? WHERE user_id=?
set_balance(bal, user_id, v) == [bal EXCEPT ![user_id] = v]

\* UPDATE users SET last_bonus_ts=? WHERE user_id=?
set_last_bonus(lb, user_id, ts) == [lb EXCEPT ![user_id] = ts]

BetRows(user_id, chat_id) == {r \in bets : r.user_id = user_id /\ r.chat_id = chat_id}

\* SELECT * FROM bets WHERE user_id=? AND chat_id=?; fetchone()
get_bet(user_id, chat_id) ==
    IF BetRows(user_id, chat_id) = {} THEN NoRow
    ELSE CHOOSE r \in BetRows(user_id, chat_id) : TRUE

HasBet(user_id, chat_id) == BetRows(user_id, chat_id) # {}

\* a bets table without the primary key: a plain INSERT
upsert_bet_insert(rows, user_id, chat_id, amount, covered, created_ts, original, bid) ==
    rows \cup {[user_id |-> user_id, chat_id |-> chat_id, amount |-> amount,
                covered |-> CoveredStr(covered), created_ts |-> created_ts,
                original |-> original, bid |-> bid]}

\* INSERT ... ON CONFLICT(user_id, chat_id) DO UPDATE SET ...
\* (bid is history: the request that placed the row)
upsert_bet(rows, user_id, chat_id, amount, covered, created_ts, original, bid) ==
    {r \in rows : ~(r.user_id = user_id /\ r.chat_id = chat_id)}
    \cup {[user_id |-> user_id, chat_id |-> chat_id, amount |-> amount,
           covered |-> CoveredStr(covered), created_ts |-> created_ts,
           original |-> original, bid |-> bid]}

\* DELETE FROM bets WHERE user_id=? AND chat_id=?
delete_bet(rows, user_id, chat_id) ==
    {r \in rows : ~(r.user_id = user_id /\ r.chat_id = chat_id)}

\* history: add_balance(user_id, delta) was called
Applied(user_id, delta) == [applied EXCEPT ![user_id] = @ + delta]

\* INSERT INTO results(chat_id, num, ts) VALUES(?,?,?)
add_result(res, chat_id, num, ts) ==
    Append(res, [chat_id |-> chat_id, num |-> num, ts |-> ts])

\* SELECT num FROM results WHERE chat_id=? ORDER BY id DESC, without the LIMIT
get_last_results_nolimit(res, chat_id, limit) ==
    LET rs == SelectSeq(res, LAMBDA r : r.chat_id = chat_id)
    IN  [i \in 1..Len(rs) |-> rs[Len(rs) + 1 - i].num]

\* SELECT num FROM results WHERE chat_id=? ORDER BY id DESC LIMIT ?
get_last_results(res, chat_id, limit) ==
    LET rs == SelectSeq(res, LAMBDA r : r.chat_id = chat_id)
        m == Min(Len(rs), limit)
    IN  [i \in 1..m |-> rs[Len(rs) + 1 - i].num]

\* ---------------------------------------------------------------------
\* Initial state
\* ---------------------------------------------------------------------
InitCore ==
    /\ now = StartTime
    /\ balance \in [Users -> InitBalances]
    /\ last_bonus = [u \in Users |-> 0]
    /\ bets = {}
    /\ results = <<>>
    /\ threads = {}
    /\ timers = {}
    /\ msgs = {}
    /\ ops = [k \in OpKinds |-> 0]
    /\ draws = {}
    /\ debited = {}
    /\ bal0 = balance
    /\ applied = [u \in Users |-> 0]

Init ==
    /\ InitCore
    /\ inText = <<>>
    /\ handled = FALSE
    /\ pIn = [amount |-> 0, covered |-> {}, spun |-> 0]
    /\ pOut = -1
    /\ shown = NoLog

\* ---------------------------------------------------------------------
\* Requests and handler threads
\* ---------------------------------------------------------------------
RECURSIVE SumOps(_, _)
SumOps(f, ks) ==
    IF ks = {} THEN 0
    ELSE LET k == CHOOSE x \in ks : TRUE IN f[k] + SumOps(f, ks \ {k})

NumOps == SumOps(ops, OpKinds)

CanStart == NumOps < MaxOps /\ Cardinality(threads) < MaxThreads

\* requests are numbered in the order of their arrival
NewId == NumOps + 1

Count(kind) == [ops EXCEPT ![kind] = @ + 1]

Thread(id, op, pc, uid, cid, amount, covered, original) ==
    [id |-> id, op |-> op, pc |-> pc, uid |-> uid, cid |-> cid,
     amount |-> amount, covered |-> covered, original |-> original]

\* time.time() moves on
Tick ==
    /\ now + TickStep <= StartTime + MaxTime
    /\ now' = now + TickStep
    /\ UNCHANGED <<dbVars, threads, timers, msgs, ops, histVars, harnessVars>>

\* on_bet_text (src/bot.py:427-440): parse, and call place_bet when valid
BetText(uid, cid, text) ==
    LET parsed == parse_bet_text(text)
    IN  /\ ops' = Count("bet")
        /\ threads' = IF parsed.ok
                      THEN threads \cup {Thread(NewId, "bet", "get_balance", uid, cid,
                                               parsed.amount, parsed.covered, parsed.original)}
                      ELSE threads
        /\ UNCHANGED <<now, dbVars, timers, msgs, histVars>>

on_bet_text ==
    /\ CanStart
    /\ \E uid \in Users, cid \in Chats, text \in BetTexts : BetText(uid, cid, text)
    /\ UNCHANGED harnessVars

\* a balance check that lets a wager of up to twice the balance pass
PlaceCheck_lax(t, pcHere, pcNext) ==
    /\ t.pc = pcHere
    /\ threads' = IF 2 * get_balance(t.uid) < t.amount
                  THEN threads \ {t}
                  ELSE (threads \ {t}) \cup {[t EXCEPT !.pc = pcNext]}
    /\ UNCHANGED <<now, dbVars, timers, msgs, ops, histVars, harnessVars>>

\* place_bet (src/bot.py:376-379): bal = get_balance(uid); if bal < amount: return
PlaceCheck(t, pcHere, pcNext) ==
    /\ t.pc = pcHere
    /\ threads' = IF get_balance(t.uid) < t.amount
                  THEN threads \ {t}
                  ELSE (threads \ {t}) \cup {[t EXCEPT !.pc = pcNext]}
    /\ UNCHANGED <<now, dbVars, timers, msgs, ops, histVars, harnessVars>>

place_bet_check == \E t \in threads : PlaceCheck(t, "get_balance", "add_balance")

\* place_bet (src/bot.py:382): add_balance(uid, -amount)
PlaceDebit(t, pcHere, pcNext) ==
    /\ t.pc = pcHere
    /\ balance' = add_balance(balance, t.uid, 0 - t.amount)
    /\ threads' = (threads \ {t}) \cup {[t EXCEPT !.pc = pcNext]}
    /\ debited' = debited \cup {[bid |-> t.id, uid |-> t.uid, amount |-> t.amount,
                                 covered |-> t.covered]}
    /\ applied' = Applied(t.uid, 0 - t.amount)
    /\ UNCHANGED <<now, last_bonus, bets, results, timers, msgs, ops, draws, bal0,
                   harnessVars>>

place_bet_debit == \E t \in threads : PlaceDebit(t, "add_balance", "upsert_bet")

\* place_bet (src/bot.py:383): upsert_bet(uid, cid, amount, covered, now(), original)
place_bet_upsert ==
    \E t \in threads :
        /\ t.pc = "upsert_bet"
        /\ bets' = upsert_bet(bets, t.uid, t.cid, t.amount, t.covered, now, t.original, t.id)
        /\ threads' = threads \ {t}
        /\ UNCHANGED <<now, balance, last_bonus, results, timers, msgs, ops, histVars,
                       harnessVars>>

\* ---------------------------------------------------------------------
\* schedule_spin (src/bot.py:324-371)
\* ---------------------------------------------------------------------
\* history: the bet the spin is requested for: the row on_go_group has just
\* read, or the row cb_repeat_double has just stored
SeenBet(chat_id, user_id, id, src) ==
    IF src = "go" THEN get_bet(user_id, chat_id).bid ELSE id

\* a timer started without the delay
schedule_spin_nodelay(tms, chat_id, user_id, id, src) ==
    tms \cup {[id |-> id, uid |-> user_id, cid |-> chat_id, reqAt |-> now,
               due |-> now, pc |-> "wait", bet |-> NoRow,
               spun |-> 0 - 1, src |-> src,
               seen |-> SeenBet(chat_id, user_id, id, src)]}

\* threading.Timer(GO_DELAY_SEC, _run).start(); reqAt, src and seen are history
schedule_spin(tms, chat_id, user_id, id, src) ==
    tms \cup {[id |-> id, uid |-> user_id, cid |-> chat_id, reqAt |-> now,
               due |-> now + GO_DELAY_SEC, pc |-> "wait", bet |-> NoRow,
               spun |-> 0 - 1, src |-> src,
               seen |-> SeenBet(chat_id, user_id, id, src)]}

\* an on_go_group that schedules the spin without looking for a bet
on_go_group_nocheck ==
    /\ CanStart
    /\ \E uid \in Users, cid \in Chats :
          timers' = schedule_spin(timers, cid, uid, NewId, "go")
    /\ ops' = Count("go")
    /\ UNCHANGED <<now, dbVars, threads, msgs, histVars, harnessVars>>

\* on_go_group (src/bot.py:418-425)
on_go_group ==
    /\ CanStart
    /\ \E uid \in Users, cid \in Chats :
          timers' = IF HasBet(uid, cid)
                    THEN schedule_spin(timers, cid, uid, NewId, "go")
                    ELSE timers
    /\ ops' = Count("go")
    /\ UNCHANGED <<now, dbVars, threads, msgs, histVars, harnessVars>>

\* _run (src/bot.py:327-329): the timer fires; bet = get_bet(...); if not bet: return
run_get_bet ==
    \E tm \in timers :
        /\ tm.pc = "wait"
        /\ now >= tm.due
        /\ timers' = IF HasBet(tm.uid, tm.cid)
                     THEN (timers \ {tm}) \cup
                          {[tm EXCEPT !.pc = "add_result", !.bet = get_bet(tm.uid, tm.cid)]}
                     ELSE timers \ {tm}
        /\ UNCHANGED <<now, dbVars, threads, msgs, ops, histVars, harnessVars>>

\* _run (src/bot.py:332-340): spun = secrets.randbelow(37); add_result(chat_id, spun)
run_add_result ==
    \E tm \in timers, spun \in Outcomes :
        /\ tm.pc = "add_result"
        /\ results' = add_result(results, tm.cid, spun, now)
        /\ timers' = (timers \ {tm}) \cup {[tm EXCEPT !.pc = "delete_bet", !.spun = spun]}
        /\ draws' = draws \cup {[bid |-> tm.bet.bid, created_ts |-> tm.bet.created_ts,
                                 at |-> now, reqAt |-> tm.reqAt, timer |-> tm.id,
                                 src |-> tm.src, spun |-> spun, seen |-> tm.seen]}
        /\ UNCHANGED <<now, balance, last_bonus, bets, threads, msgs, ops, debited, bal0,
                       applied, harnessVars>>

\* _run (src/bot.py:349): delete_bet(user_id, chat_id)
run_delete_bet ==
    \E tm \in timers :
        /\ tm.pc = "delete_bet"
        /\ bets' = delete_bet(bets, tm.uid, tm.cid)
        /\ timers' = (timers \ {tm}) \cup {[tm EXCEPT !.pc = "add_balance"]}
        /\ UNCHANGED <<now, balance, last_bonus, results, threads, msgs, ops, histVars,
                       harnessVars>>

\* the payout _run computes from the row it read (src/bot.py:342-346)
RunPayout(tm) == calc_payout(tm.bet.amount, CoveredSet(tm.bet.covered), tm.spun)

\* the two variable parts of bet_line (src/bot.py:363), as Telegram shows them
ResultMsg(tm) ==
    [chat_id |-> tm.cid, amount_txt |-> fmt_int(tm.bet.amount),
     tail |-> AfterFirstBlank(tm.bet.original)]

\* _run (src/bot.py:352-369): if payout > 0: add_balance(user_id, payout); send the result
run_credit ==
    \E tm \in timers :
        /\ tm.pc = "add_balance"
        /\ LET payout == RunPayout(tm)
           IN  /\ balance' = IF payout > 0 THEN add_balance(balance, tm.uid, payout)
                              ELSE balance
               /\ applied' = IF payout > 0 THEN Applied(tm.uid, payout) ELSE applied
        /\ msgs' = msgs \cup {ResultMsg(tm)}
        /\ timers' = timers \ {tm}
        /\ UNCHANGED <<now, last_bonus, bets, results, threads, ops, draws, debited, bal0,
                       harnessVars>>

\* ---------------------------------------------------------------------
\* cb_repeat_double (src/bot.py:523-574)
\* ---------------------------------------------------------------------
\* a first group of digits only: it ends at the first blank of the amount
RegexGroups_digits(msg) == [g1 |-> Split(msg.amount_txt)[1], g2 |-> msg.tail]

\* re.search(r"•\s*([\d\s]+)\s*GRAM на (.+)$", text): the greedy first group
\* takes the blank before GRAM
RegexGroups(msg) == [g1 |-> msg.amount_txt \o <<" ">>, g2 |-> msg.tail]

\* a reconstruction that does not double the amount
RepeatText_same(msg, data) ==
    LET amount_str == RemoveBlanks(RegexGroups(msg).g1)
        tail == Lower(Strip(RegexGroups(msg).g2))
    IN  IntStr(ParseInt(amount_str)) \o <<" ">> \o tail

\* the text parse_bet_text is given (src/bot.py:544-557)
RepeatText(msg, data) ==
    LET amount_str == RemoveBlanks(RegexGroups(msg).g1)
        tail == Lower(Strip(RegexGroups(msg).g2))
        amount == IF data = "bet_double" THEN ParseInt(amount_str) * 2
                  ELSE ParseInt(amount_str)
    IN  IntStr(amount) \o <<" ">> \o tail

\* c.data of the button pressed, as a kind of request
PressKind(data) == IF data = "bet_double" THEN "double" ELSE "repeat"

\* src/bot.py:529-561: refuse when a bet exists, else rebuild and parse the wager
RepeatDouble(uid, cid, msg, data) ==
    LET parsed == parse_bet_text(RepeatText(msg, data))
    IN  /\ ops' = Count(PressKind(data))
        /\ threads' = IF ~HasBet(uid, cid) /\ parsed.ok
                      THEN threads \cup {Thread(NewId, PressKind(data), "rd_get_balance", uid, cid,
                                               parsed.amount, parsed.covered, parsed.original)}
                      ELSE threads
        /\ UNCHANGED <<now, dbVars, timers, msgs, histVars, harnessVars>>

cb_repeat_double ==
    /\ CanStart
    /\ \E uid \in Users, msg \in msgs, data \in {"bet_repeat", "bet_double"} :
          RepeatDouble(uid, msg.chat_id, msg, data)

\* src/bot.py:564-567: bal = get_balance(uid); if bal < amount2: return
rd_check == \E t \in threads : PlaceCheck(t, "rd_get_balance", "rd_add_balance")

\* src/bot.py:569: add_balance(uid, -amount2)
rd_debit == \E t \in threads : PlaceDebit(t, "rd_add_balance", "rd_upsert")

\* src/bot.py:570-574: upsert_bet(...); schedule_spin(...)
rd_upsert ==
    \E t \in threads :
        /\ t.pc = "rd_upsert"
        /\ bets' = upsert_bet(bets, t.uid, t.cid, t.amount, t.covered, now, t.original, t.id)
        /\ timers' = schedule_spin(timers, t.cid, t.uid, t.id, "rd")
        /\ threads' = threads \ {t}
        /\ UNCHANGED <<now, balance, last_bonus, results, msgs, ops, histVars, harnessVars>>

\* ---------------------------------------------------------------------
\* cb_private, "p_bonus" (src/bot.py:509-519)
\* ---------------------------------------------------------------------
\* a cooldown check that refuses the claim made exactly 24 hours later
cb_bonus_strict ==
    /\ CanStart
    /\ \E uid \in Users :
          threads' = IF now - get_last_bonus(uid) <= BONUS_COOLDOWN_SEC
                     THEN threads
                     ELSE threads \cup {Thread(NewId, "bonus", "set_last_bonus", uid, 0,
                                              0, {}, <<>>)}
    /\ ops' = Count("bonus")
    /\ UNCHANGED <<now, dbVars, timers, msgs, histVars, harnessVars>>

\* lastb = get_last_bonus(uid); if now() - lastb < BONUS_COOLDOWN_SEC: return
cb_bonus ==
    /\ CanStart
    /\ \E uid \in Users :
          threads' = IF now - get_last_bonus(uid) < BONUS_COOLDOWN_SEC
                     THEN threads
                     ELSE threads \cup {Thread(NewId, "bonus", "set_last_bonus", uid, 0,
                                              0, {}, <<>>)}
    /\ ops' = Count("bonus")
    /\ UNCHANGED <<now, dbVars, timers, msgs, histVars, harnessVars>>

\* set_last_bonus(uid, now())
bonus_set_last ==
    \E t \in threads :
        /\ t.pc = "set_last_bonus"
        /\ last_bonus' = set_last_bonus(last_bonus, t.uid, now)
        /\ threads' = (threads \ {t}) \cup {[t EXCEPT !.pc = "bonus_add"]}
        /\ UNCHANGED <<now, balance, bets, results, timers, msgs, ops, histVars, harnessVars>>

\* add_balance(uid, BONUS_AMOUNT)
bonus_credit ==
    \E t \in threads :
        /\ t.pc = "bonus_add"
        /\ balance' = add_balance(balance, t.uid, BONUS_AMOUNT)
        /\ applied' = Applied(t.uid, BONUS_AMOUNT)
        /\ threads' = threads \ {t}
        /\ UNCHANGED <<now, last_bonus, bets, results, timers, msgs, ops, draws, debited,
                       bal0, harnessVars>>

\* ---------------------------------------------------------------------
\* Admin commands (src/bot.py:459-485)
\* ---------------------------------------------------------------------
\* cmd_giveid: add_balance(uid, n)
cmd_giveid ==
    /\ CanStart
    /\ \E uid \in Users, n \in GiveAmounts :
          /\ balance' = add_balance(balance, uid, n)
          /\ applied' = Applied(uid, n)
    /\ ops' = Count("giveid")
    /\ UNCHANGED <<now, last_bonus, bets, results, threads, timers, msgs, draws, debited,
                   bal0, harnessVars>>

\* cmd_resetid: set_balance(uid, 0)
cmd_resetid ==
    /\ CanStart
    /\ \E uid \in Users : balance' = set_balance(balance, uid, 0)
    /\ ops' = Count("resetid")
    /\ UNCHANGED <<now, last_bonus, bets, results, threads, timers, msgs, histVars,
                   harnessVars>>

\* ---------------------------------------------------------------------
\* The bot: every handler and timer step, interleaved
\* ---------------------------------------------------------------------
Next ==
    \/ Tick
    \/ on_bet_text
    \/ place_bet_check
    \/ place_bet_debit
    \/ place_bet_upsert
    \/ on_go_group
    \/ run_get_bet
    \/ run_add_result
    \/ run_delete_bet
    \/ run_credit
    \/ cb_repeat_double
    \/ rd_check
    \/ rd_debit
    \/ rd_upsert
    \/ cb_bonus
    \/ bonus_set_last
    \/ bonus_credit
    \/ cmd_giveid
    \/ cmd_resetid

Spec == Init /\ [][Next]_vars

\* ---------------------------------------------------------------------
\* Parser harness: on_bet_text and place_bet on one message, drawn from
\* well-formed and ill-formed wager texts
\* ---------------------------------------------------------------------
AmountTokens ==
    { <<"1", "0", "0">>, <<"0">>, <<"x">>, <<"-", "5">> }

TargetTokens ==
    { <<"0">>, <<"3", "6">>, <<"3", "7">>, <<"1", "0", "0">>,
      <<"5", "-", "9">>, <<"9", "-", "5">>, <<"0", "-", "4", "0">>,
      <<"1", "-">>, <<"X">> }

\* number of targets in the longest text beyond MAX_CHOICES
MaxExtra == 1

\* n times the target "1"
Fill(n) == [i \in 1..n |-> <<"1">>]

ParseTexts ==
    {a : a \in AmountTokens}
    \cup {JoinBlank(<<a, t>>) : a \in AmountTokens, t \in TargetTokens}
    \cup {JoinBlank(<<a, t, u>>) : a \in {<<"1", "0", "0">>}, t \in TargetTokens, u \in TargetTokens}
    \cup {<<" ">> \o a \o <<" ", " ">> \o t \o <<" ">> : a \in {<<"1", "0", "0">>}, t \in TargetTokens}
    \cup {JoinBlank(<<a>> \o Fill(n) \o <<t>>) :
             a \in {<<"1", "0", "0">>},
             n \in (MAX_CHOICES - 1)..(MAX_CHOICES - 1 + MaxExtra),
             t \in TargetTokens}

InitParse ==
    /\ InitCore
    /\ inText \in ParseTexts
    /\ handled = FALSE
    /\ pIn = [amount |-> 0, covered |-> {}, spun |-> 0]
    /\ pOut = -1
    /\ shown = NoLog

\* the message inText arrives in a group
handle_text ==
    /\ ~handled
    /\ handled' = TRUE
    /\ \E uid \in Users, cid \in Chats : BetText(uid, cid, inText)
    /\ UNCHANGED <<inText, pIn, pOut, shown>>

NextParse ==
    \/ handle_text
    \/ place_bet_check
    \/ place_bet_debit
    \/ place_bet_upsert

SpecParse == InitParse /\ [][NextParse]_vars

\* ---------------------------------------------------------------------
\* Payout harness: calc_payout on one triple of arguments
\* ---------------------------------------------------------------------
\* largest stake of the harness below the two large ones
MaxPayAmount == 60

PayAmounts == (1..MaxPayAmount) \cup {2500, 1000003}

PayCovered == {a..b : a \in {0, 4}, b \in 4..36}

PaySpins == {0, 18, 36}

InitPayout ==
    /\ InitCore
    /\ balance = [u \in Users |-> 10000]
    /\ inText = <<>>
    /\ handled = FALSE
    /\ pIn \in [amount : PayAmounts, covered : PayCovered, spun : PaySpins]
    /\ pOut = -1
    /\ shown = NoLog

call_calc_payout ==
    /\ pOut = -1
    /\ pOut' = calc_payout(pIn.amount, pIn.covered, pIn.spun)
    /\ UNCHANGED <<now, dbVars, threads, timers, msgs, ops, histVars, inText, handled, pIn,
                   shown>>

NextPayout == call_calc_payout

SpecPayout == InitPayout /\ [][NextPayout]_vars

\* ---------------------------------------------------------------------
\* The bot with crashes: the process stops at any point and is started again
\* (src/bot.py:577-580). The tables are kept (CREATE TABLE IF NOT EXISTS);
\* the handler threads and the threading.Timer threads are gone.
\* ---------------------------------------------------------------------
crash_restart ==
    /\ NumOps < MaxOps
    /\ threads' = {}
    /\ timers' = {}
    /\ ops' = Count("crash")
    /\ UNCHANGED <<now, dbVars, msgs, histVars, harnessVars>>

NextCrash ==
    \/ Tick
    \/ on_bet_text
    \/ place_bet_check
    \/ place_bet_debit
    \/ place_bet_upsert
    \/ on_go_group
    \/ run_get_bet
    \/ run_add_result
    \/ run_delete_bet
    \/ run_credit
    \/ crash_restart

SpecCrash == Init /\ [][NextCrash]_vars

\* ---------------------------------------------------------------------
\* Bonus claims around the end of the cooldown: the last bonus was taken
\* one second less than 24 hours before the start, the clock moves by
\* seconds
\* ---------------------------------------------------------------------
InitBonus ==
    /\ now = StartTime
    /\ balance \in [Users -> InitBalances]
    /\ last_bonus = [u \in Users |-> StartTime - BONUS_COOLDOWN_SEC + 1]
    /\ bets = {}
    /\ results = <<>>
    /\ threads = {}
    /\ timers = {}
    /\ msgs = {}
    /\ ops = [k \in OpKinds |-> 0]
    /\ draws = {}
    /\ debited = {}
    /\ bal0 = balance
    /\ applied = [u \in Users |-> 0]
    /\ inText = <<>>
    /\ handled = FALSE
    /\ pIn = [amount |-> 0, covered |-> {}, spun |-> 0]
    /\ pOut = -1
    /\ shown = NoLog

\* time.time() moves on by one second
tick_second ==
    /\ now + 1 <= StartTime + MaxTime
    /\ now' = now + 1
    /\ UNCHANGED <<dbVars, threads, timers, msgs, ops, histVars, harnessVars>>

NextBonus ==
    \/ tick_second
    \/ cb_bonus
    \/ bonus_set_last
    \/ bonus_credit

SpecBonus == InitBonus /\ [][NextBonus]_vars

\* ---------------------------------------------------------------------
\* The result log: the results table holds rows of earlier settlements in
\* two chats; wagers are placed and settled, and the log is asked for
\* ---------------------------------------------------------------------
\* the limit on_log_group passes to get_last_results
LogLimit == 10

\* rows in the largest results table at the start
MaxRows == 16

LogChats == {1, 2}

\* every third row belongs to chat 2, the others to chat 1
LogRows(n) ==
    [i \in 1..n |-> [chat_id |-> IF i % 3 = 0 THEN 2 ELSE 1, num |-> (7 * i) % 37,
                     ts |-> StartTime - (n - i) - 1]]

\* chat 1 starts with 0, 2, 9, 10 or 11 rows (at MaxRows = 16)
LogSizes == {0, 3, MaxRows - 3, MaxRows - 1, MaxRows}

InitLog ==
    /\ now = StartTime
    /\ balance = [u \in Users |-> 10000]
    /\ last_bonus = [u \in Users |-> 0]
    /\ bets = {}
    /\ results \in {LogRows(n) : n \in LogSizes}
    /\ threads = {}
    /\ timers = {}
    /\ msgs = {}
    /\ ops = [k \in OpKinds |-> 0]
    /\ draws = {}
    /\ debited = {}
    /\ bal0 = balance
    /\ applied = [u \in Users |-> 0]
    /\ inText = <<>>
    /\ handled = FALSE
    /\ pIn = [amount |-> 0, covered |-> {}, spun |-> 0]
    /\ pOut = -1
    /\ shown = NoLog

Reverse(xs) == [i \in 1..Len(xs) |-> xs[Len(xs) + 1 - i]]

\* on_log_group (src/bot.py:408-416): nums = get_last_results(chat, 10);
\* the message lists reversed(nums), or says that the log is empty
on_log_group ==
    /\ CanStart
    /\ \E cid \in LogChats :
          shown' = [chat_id |-> cid,
                    lines |-> Reverse(get_last_results(results, cid, LogLimit))]
    /\ ops' = Count("log")
    /\ UNCHANGED <<now, dbVars, threads, timers, msgs, histVars, inText, handled, pIn,
                   pOut>>

NextLog ==
    \/ Tick
    \/ on_bet_text
    \/ place_bet_check
    \/ place_bet_debit
    \/ place_bet_upsert
    \/ on_go_group
    \/ run_get_bet
    \/ run_add_result
    \/ run_delete_bet
    \/ run_credit
    \/ on_log_group

SpecLog == InitLog /\ [][NextLog]_vars

\* ---------------------------------------------------------------------
\* The buttons of earlier results: two bets of the user were settled (and
\* lost) before the behaviour starts, "55 0-32" and then "2500 0"; their
\* result messages with the buttons are in the chat. The behaviours are the
\* placements and presses of the seconds that follow, before a timer is
\* due: the settlement steps are those of Spec
\* ---------------------------------------------------------------------
\* the rows the two bets had, with the history ids -1 and 0
OldBets ==
    { [user_id |-> 1, chat_id |-> 1, amount |-> 55, covered |-> CoveredStr(0..32),
       created_ts |-> StartTime - 40,
       original |-> <<"5", "5", " ", "0", "-", "3", "2">>, bid |-> 0 - 1],
      [user_id |-> 1, chat_id |-> 1, amount |-> 2500, covered |-> CoveredStr({0}),
       created_ts |-> StartTime - 20,
       original |-> <<"2", "5", "0", "0", " ", "0">>, bid |-> 0] }

InitRepeat ==
    /\ now = StartTime
    /\ balance = [u \in Users |-> 2500]
    /\ last_bonus = [u \in Users |-> 0]
    /\ bets = {}
    /\ results = <<[chat_id |-> 1, num |-> 33, ts |-> StartTime - 30],
                   [chat_id |-> 1, num |-> 33, ts |-> StartTime - 10]>>
    /\ threads = {}
    /\ timers = {}
    /\ msgs = {ResultMsg([cid |-> r.chat_id, bet |-> r]) : r \in OldBets}
    /\ ops = [k \in OpKinds |-> 0]
    /\ draws = {[bid |-> r.bid, created_ts |-> r.created_ts, at |-> r.created_ts + 10,
                 reqAt |-> r.created_ts, timer |-> r.bid, src |-> "go", spun |-> 33,
                 seen |-> r.bid] :
                 r \in OldBets}
    /\ debited = {[bid |-> r.bid, uid |-> r.user_id, amount |-> r.amount,
                   covered |-> CoveredSet(r.covered)] : r \in OldBets}
    /\ bal0 = balance
    /\ applied = [u \in Users |-> 0]
    /\ inText = <<>>
    /\ handled = FALSE
    /\ pIn = [amount |-> 0, covered |-> {}, spun |-> 0]
    /\ pOut = -1
    /\ shown = NoLog

NextRepeat ==
    \/ on_bet_text
    \/ place_bet_check
    \/ place_bet_debit
    \/ place_bet_upsert
    \/ cb_repeat_double
    \/ rd_check
    \/ rd_debit
    \/ rd_upsert

SpecRepeat == InitRepeat /\ [][NextRepeat]_vars

\* ---------------------------------------------------------------------
\* Properties
\* ---------------------------------------------------------------------
\* payout of the specification: floor(stake * 36 / |covered|) on a hit, else 0
SpecPayoutOf(amount, covered, rolled) ==
    IF rolled \in covered THEN (amount * 36) \div Cardinality(covered) ELSE 0

\* draws whose _run has finished, the credit included
Finished(d) == \A tm \in timers : tm.id # d.timer

\* C1: every user's balance is >= 0 in every reachable state, under any
\* interleaving of placements, repeat/double placements, settlements, bonus
\* claims and admin credits (behaviours without an admin reset).
C1_BalanceNonNegative ==
    ops["resetid"] = 0 => \A u \in Users : balance[u] >= 0

\* C2: each placed bet is resolved at most once: at most one draw is made
\* for any one placed bet, however many timers run for its (chat, user).
C2_ResolvedAtMostOnce ==
    \A d1 \in draws, d2 \in draws : d1.bid = d2.bid => d1.timer = d2.timer

\* C3: no bet is settled at a time strictly earlier than its own created_ts
\* plus the 10-second cooldown.
C3_NoSettleBeforeCooldown ==
    \A d \in draws : d.at >= d.created_ts + GO_DELAY_SEC

\* C4: a held stake is never silently discarded: every stake that was
\* debited belongs to a placement still in progress, to a bet that is still
\* Pending, or to a bet that has been settled.
C4_StakeNeverDiscarded ==
    \A p \in debited :
        \/ \E t \in threads : t.id = p.bid
        \/ \E r \in bets : r.bid = p.bid
        \/ \E d \in draws : d.bid = p.bid

\* C5: there is at most one Pending bet per (chat, user) pair in every
\* reachable state.
C5_OnePendingPerKey ==
    \A r1 \in bets, r2 \in bets :
        (r1.user_id = r2.user_id /\ r1.chat_id = r2.chat_id) => r1 = r2

\* C5 witness: a placement has met the bet of an earlier placement (the
\* earlier one is neither in progress, nor stored, nor settled) and the key
\* holds one row.
C5_Witness ==
    /\ bets # {}
    /\ \E p \in debited :
          /\ \A t \in threads : t.id # p.bid
          /\ \A r \in bets : r.bid # p.bid
          /\ \A d \in draws : d.bid # p.bid

\* C6: a placement, by text or by repeat/double, whose amount exceeds the
\* balance read by its check is rejected: the handler ends there, with the
\* balance unchanged, no bet created or modified and no spin scheduled.
C6_RejectOverBalance ==
    [][\A t \in threads :
          (/\ t.pc \in {"get_balance", "rd_get_balance"}
           /\ t.amount > balance[t.uid]
           /\ t \notin threads')
          => (/\ threads' = threads \ {t}
              /\ balance' = balance
              /\ bets' = bets
              /\ timers' = timers
              /\ debited' = debited)]_vars

\* C6 witness: two wagers were sent and nothing else; both handlers have
\* ended and only one stake was debited, so the other wager was rejected.
C6_Witness ==
    /\ ops["bet"] = 2
    /\ NumOps = 2
    /\ threads = {}
    /\ Cardinality(debited) = 1
    /\ \E p \in debited : balance[p.uid] = bal0[p.uid] - p.amount

\* C7: when one wager of amount a <= b is placed by a user with balance b
\* and nothing else moves the balance, the balance is b - a after the
\* placement and b - a + payout(a, covered, r) once the bet has been settled
\* once with rolled number r.
C7_DebitThenFullPayout ==
    (ops["bet"] = 1 /\ NumOps = ops["bet"] + ops["go"]) =>
        /\ debited = {} => balance = bal0
        /\ \A p \in debited :
              /\ (\A d \in draws : draws = {d} /\ ~Finished(d))
                    => balance[p.uid] = bal0[p.uid] - p.amount
              /\ \A d \in draws :
                    (draws = {d} /\ Finished(d))
                    => balance[p.uid] = bal0[p.uid] - p.amount
                                        + SpecPayoutOf(p.amount, p.covered, d.spun)

\* C8: calc_payout returns exactly floor(amount * 36 / |covered|) when the
\* rolled number is covered and 0 otherwise.
C8_PayoutIsExactFloor ==
    pOut # -1 => pOut = SpecPayoutOf(pIn.amount, pIn.covered, pIn.spun)

\* the wager grammar of the specification, on the tokens of a text
TextTokens(text) ==
    LET parts == Split(Squeeze(Strip(text)))
    IN  IF parts = <<<<>>>> THEN <<>> ELSE parts

IsNumberToken(c) == IsDigit(c)

IsRangeToken(c) ==
    \E p \in 2..(Len(c) - 1) :
        c[p] = "-" /\ IsDigit(SubSeq(c, 1, p - 1)) /\ IsDigit(SubSeq(c, p + 1, Len(c)))

RangeEnds(c) ==
    LET p == CHOOSE q \in 2..(Len(c) - 1) :
                 c[q] = "-" /\ IsDigit(SubSeq(c, 1, q - 1)) /\ IsDigit(SubSeq(c, q + 1, Len(c)))
    IN  {ParseInt(SubSeq(c, 1, p - 1)), ParseInt(SubSeq(c, p + 1, Len(c)))}

\* the target is malformed, or a number or range endpoint is outside [0,36]
BadTarget(c) ==
    IF IsNumberToken(c) THEN ParseInt(c) > 36
    ELSE IF IsRangeToken(c) THEN \E x \in RangeEnds(c) : x > 36
    ELSE TRUE

\* the amount is missing, non-numeric or not positive
BadAmount(text) ==
    \/ Len(TextTokens(text)) = 0
    \/ ~IsDigit(TextTokens(text)[1])
    \/ ParseInt(TextTokens(text)[1]) <= 0

\* the text is invalid by the grammar, looking at its first n targets
InvalidWager(text, n) ==
    \/ BadAmount(text)
    \/ Len(TextTokens(text)) < 2
    \/ \E i \in 2..Min(Len(TextTokens(text)), n + 1) : BadTarget(TextTokens(text)[i])

\* no row of the database differs from the start and no stake was taken
NoStateChange == balance = bal0 /\ bets = {} /\ debited = {}

\* C9 as claimed: a wager text with a bad amount or with a bad target at any
\* position, those beyond the 16th included, is rejected with no state change.
C9_InvalidRejectedAnyTarget ==
    (handled /\ InvalidWager(inText, Len(inText))) => NoStateChange

\* C9 as amended: a wager text with a bad amount or with a bad target among
\* its first MAX_CHOICES (16) targets is rejected with no state change;
\* targets beyond the 16th are dropped unread.
C9_InvalidRejectedFirst16 ==
    (handled /\ InvalidWager(inText, MAX_CHOICES)) => NoStateChange

\* C9 witness: a text with a good amount and a bad 16th target was handled
\* and rejected.
C9_Witness ==
    /\ handled
    /\ ~BadAmount(inText)
    /\ Len(TextTokens(inText)) = MAX_CHOICES + 1
    /\ BadTarget(TextTokens(inText)[MAX_CHOICES + 1])
    /\ threads = {}
    /\ NoStateChange

\* C10 as claimed: only a spin request made at or after created_ts + 10s
\* leads to a settlement of the bet; a request made earlier causes none,
\* immediate or deferred.
C10_EarlyRequestNeverSettles ==
    \A d \in draws : d.src = "go" => d.reqAt >= d.created_ts + GO_DELAY_SEC

\* C10 as amended: a spin request is not refused during the cooldown; the
\* request itself settles nothing and leaves the bets and balances
\* unchanged, and the settlement it schedules is made no earlier than 10
\* seconds after the request.
C10_RequestDefersSettlement ==
    [][/\ ops'["go"] # ops["go"]
          => (bets' = bets /\ balance' = balance /\ results' = results /\ draws' = draws)
       /\ \A d \in draws' \ draws : d.at >= d.reqAt + GO_DELAY_SEC]_vars

\* C10 witness: a bet was settled by a spin requested less than 10 seconds
\* after that bet was placed.
C10_Witness ==
    \E d \in draws :
        /\ d.src = "go"
        /\ d.reqAt >= d.created_ts
        /\ d.reqAt < d.created_ts + GO_DELAY_SEC
        /\ d.at >= d.reqAt + GO_DELAY_SEC

\* C11: settlement is atomic with respect to crashes: when one bet was placed
\* and drawn once, and the settlement has ended (by completing or by a stop
\* of the process between two of its steps), then the payout of the draw
\* has been credited exactly once or the bet is still Pending.
C11_CrashKeepsPayout ==
    (ops["bet"] = 1 /\ NumOps = ops["bet"] + ops["go"] + ops["crash"]) =>
        \A p \in debited, d \in draws :
            (draws = {d} /\ Finished(d)) =>
                \/ \E r \in bets : r.bid = d.bid
                \/ balance[p.uid] = bal0[p.uid] - p.amount
                                    + calc_payout(p.amount, p.covered, d.spun)

\* C12: in behaviours without set_balance (no admin reset), under every
\* interleaving of the add_balance calls of placements, payouts, bonus
\* claims and admin credits, each user's balance is the initial balance plus
\* the sum of all deltas applied: no update is lost.
C12_BalanceIsSumOfDeltas ==
    ops["resetid"] = 0 => \A u \in Users : balance[u] = bal0[u] + applied[u]

\* C12 witness: two placements are in flight, one has debited its stake and
\* the other is about to; an admin credit has been applied as well.
C12_Witness ==
    /\ ops["resetid"] = 0
    /\ ops["giveid"] = 1
    /\ \E t1 \in threads, t2 \in threads :
          /\ t1.pc = "upsert_bet"
          /\ t2.pc = "add_balance"
          /\ t1.uid = t2.uid
          /\ \E n \in GiveAmounts : applied[t1.uid] = n - t1.amount

\* C13: a bonus claim succeeds exactly when now - last_bonus_ts >= 24 hours,
\* the boundary included: the claim itself changes nothing and is granted
\* or refused by that test; a granted claim sets last_bonus_ts to the time
\* of the write and then credits 2500; nothing else changes the balance or
\* last_bonus_ts, so a claim one second early changes neither.
C13_BonusExactlyAfterCooldown ==
    [][/\ ops'["bonus"] # ops["bonus"] =>
             /\ balance' = balance
             /\ last_bonus' = last_bonus
             /\ \E u \in Users :
                   IF now - last_bonus[u] >= BONUS_COOLDOWN_SEC
                   THEN \E t \in threads' \ threads :
                           /\ threads' = threads \cup {t}
                           /\ t.op = "bonus" /\ t.uid = u /\ t.pc = "set_last_bonus"
                   ELSE threads' = threads
       /\ \A t \in threads \ threads' :
             t.op = "bonus" =>
                IF t.pc = "set_last_bonus"
                THEN /\ last_bonus' = [last_bonus EXCEPT ![t.uid] = now]
                     /\ balance' = balance
                     /\ \E t2 \in threads' \ threads : t2.id = t.id /\ t2.pc = "bonus_add"
                ELSE /\ balance' = [balance EXCEPT ![t.uid] = @ + BONUS_AMOUNT]
                     /\ last_bonus' = last_bonus
                     /\ \A t2 \in threads' : t2.id # t.id
       /\ (balance' # balance \/ last_bonus' # last_bonus) =>
             \E t \in threads \ threads' : t.op = "bonus"]_vars

\* C13 witness: one second after the start, that is exactly 24 hours after
\* the last bonus, two claims have been made and one of them was granted:
\* it set last_bonus_ts to that second and credited 2500 once.
C13_Witness ==
    /\ now = StartTime + 1
    /\ ops["bonus"] = 2
    /\ threads = {}
    /\ \E u \in Users :
          /\ last_bonus[u] = StartTime + 1
          /\ balance[u] = bal0[u] + BONUS_AMOUNT

\* the outcomes appended for a chat, oldest first
ChatOutcomes(chat_id) ==
    LET rs == SelectSeq(results, LAMBDA r : r.chat_id = chat_id)
    IN  [i \in 1..Len(rs) |-> rs[i].num]

\* the 10 most recently appended outcomes of a chat (all of them when there
\* are fewer), newest first
Newest10(chat_id) ==
    LET xs == ChatOutcomes(chat_id)
    IN  [i \in 1..Min(Len(xs), 10) |-> xs[Len(xs) + 1 - i]]

\* the same outcomes, oldest first
Newest10OldestFirst(chat_id) ==
    LET xs == ChatOutcomes(chat_id)
    IN  SubSeq(xs, Max(1, Len(xs) - 9), Len(xs))

\* every draw of a settlement appends exactly one outcome, to the log of the
\* chat of the bet, and nothing else changes the results table
OneOutcomePerSettlement ==
    /\ draws' # draws =>
          /\ Cardinality(draws') = Cardinality(draws) + 1
          /\ Len(results') = Len(results) + 1
          /\ SubSeq(results', 1, Len(results)) = results
          /\ \E d \in draws' \ draws :
                /\ results'[Len(results')].num = d.spun
                /\ \E tm \in timers :
                      tm.id = d.timer /\ tm.cid = results'[Len(results')].chat_id
    /\ draws' = draws => results' = results

\* C14 as claimed: the result log shown for a chat is the at most 10 most
\* recently appended outcomes of that chat only, ordered newest-first, and
\* each settlement appends exactly one outcome.
C14_LogNewestFirst ==
    [][/\ ops'["log"] # ops["log"] => shown'.lines = Newest10(shown'.chat_id)
       /\ OneOutcomePerSettlement]_vars

\* C14 as amended: the result log shown for a chat is the at most 10 most
\* recently appended outcomes of that chat only, ordered oldest-first (the
\* newest at the bottom), and each settlement appends exactly one outcome.
C14_LogOldestFirst ==
    [][/\ ops'["log"] # ops["log"] => shown'.lines = Newest10OldestFirst(shown'.chat_id)
       /\ OneOutcomePerSettlement]_vars

\* C14 witness: a bet was settled in a chat that had more than 10 outcomes,
\* among the outcomes of another chat, and the log was shown afterwards: 10
\* lines ending with the outcome of that settlement.
C14_Witness ==
    /\ Len(ChatOutcomes(shown.chat_id)) > 10
    /\ Len(ChatOutcomes(shown.chat_id)) < Len(results)
    /\ Len(shown.lines) = 10
    /\ \E d \in draws :
          /\ Finished(d)
          /\ draws = {d}
          /\ shown.lines[10] = d.spun
          /\ results[Len(results)].num = d.spun

\* every (user, chat) holds a Pending bet and the user has funds for a
\* second stake of the same amount
AllPendingWithFunds ==
    \A u \in Users, c \in Chats :
        HasBet(u, c) /\ balance[u] >= get_bet(u, c).amount

\* C15 as claimed: a 'double' pressed while the bet is Pending and the user
\* has funds for a second stake is carried out on that bet; at the least the
\* handler does not end at once with nothing changed.
C15_DoubleRaisesPendingBet ==
    [][(ops'["double"] # ops["double"] /\ AllPendingWithFunds)
          => (threads' # threads \/ bets' # bets \/ balance' # balance)]_vars

\* C15 as amended: a 'double' pressed while the presser has a Pending bet is
\* refused and changes nothing. Pressed on a result message while the
\* presser has no Pending bet, it starts the placement of a fresh bet of
\* twice the settled amount on the same covered set; that placement debits
\* the whole doubled amount and stores the bet with created_ts = the time of
\* storing.
C15_DoublePlacesFreshBet ==
    [][/\ (ops'["double"] # ops["double"] /\ \A u \in Users, c \in Chats : HasBet(u, c))
          => (threads' = threads /\ bets' = bets /\ balance' = balance /\ timers' = timers)
       /\ \A t \in threads' \ threads :
             (t.op = "double" /\ t.pc = "rd_get_balance") =>
                /\ ~HasBet(t.uid, t.cid)
                /\ \E p \in debited, d \in draws :
                      /\ d.bid = p.bid
                      /\ Finished(d)
                      /\ t.amount = 2 * p.amount
                      /\ t.covered = p.covered
       /\ \A t \in threads \ threads' :
             (t.op = "double" /\ t.pc = "rd_add_balance") =>
                balance' = [balance EXCEPT ![t.uid] = @ - t.amount]
       /\ \A t \in threads \ threads' :
             (t.op = "double" /\ t.pc = "rd_upsert") =>
                \E r \in bets' :
                   /\ BetRows(t.uid, t.cid)' = {r}
                   /\ r.amount = t.amount
                   /\ CoveredSet(r.covered) = t.covered
                   /\ r.created_ts = now]_vars

\* C15 witness: a bet was settled, 'double' was pressed on its result
\* message and the doubled bet is stored: twice the amount, placed after
\* the settlement, and the whole doubled amount was debited.
C15_Witness ==
    /\ ops["double"] = 1
    /\ threads = {}
    /\ \E r \in bets, p \in debited, p2 \in debited, d \in draws :
          /\ d.bid = p.bid
          /\ Finished(d)
          /\ p2.bid = r.bid
          /\ p2.bid # p.bid
          /\ r.amount = 2 * p.amount
          /\ p2.amount = 2 * p.amount
          /\ r.created_ts >= d.at

\* the settled bets: the stakes debited whose draw has finished
Settled(p, d) == d.bid = p.bid /\ Finished(d)

\* the bet settled last
LastSettled(p, d) ==
    /\ Settled(p, d)
    /\ \A d2 \in draws : Finished(d2) => d2.at <= d.at

\* the steps of a placement started by 'repeat': the check ends the handler
\* with nothing changed when the balance is below the amount, the debit
\* takes exactly the amount, and the bet is stored with that amount and
\* covered set
RepeatPlacementSteps ==
    \A t \in threads \ threads' :
        t.op = "repeat" =>
           /\ t.pc = "rd_get_balance" =>
                 /\ balance' = balance /\ bets' = bets /\ timers' = timers
                 /\ IF balance[t.uid] < t.amount
                    THEN threads' = threads \ {t}
                    ELSE threads' = (threads \ {t}) \cup {[t EXCEPT !.pc = "rd_add_balance"]}
           /\ t.pc = "rd_add_balance" =>
                 /\ balance' = [balance EXCEPT ![t.uid] = @ - t.amount]
                 /\ bets' = bets
           /\ t.pc = "rd_upsert" =>
                 /\ balance' = balance
                 /\ \E r \in bets' :
                       /\ BetRows(t.uid, t.cid)' = {r}
                       /\ r.amount = t.amount
                       /\ CoveredSet(r.covered) = t.covered
                       /\ r.created_ts = now

\* the press itself changes no balance, bet or timer
RepeatPressChangesNothing ==
    ops'["repeat"] # ops["repeat"] =>
        (balance' = balance /\ bets' = bets /\ timers' = timers)

\* C16 as claimed: a 'repeat' that is accepted places a bet with the amount
\* and the covered set of the bet settled last, debiting exactly that
\* amount; with insufficient funds it changes no balance and creates no bet.
C16_RepeatLastSettledBet ==
    [][/\ RepeatPressChangesNothing
       /\ \A t \in threads' \ threads :
             (t.op = "repeat" /\ t.pc = "rd_get_balance") =>
                \E p \in debited, d \in draws :
                    LastSettled(p, d) /\ t.amount = p.amount /\ t.covered = p.covered
       /\ RepeatPlacementSteps]_vars

\* C16 as amended: a 'repeat' pressed on a result message while the presser
\* has no Pending bet is accepted and places a bet with the amount and the
\* covered set of a settled bet, the one of that message, which need not be
\* the bet settled last; it debits exactly that amount; with insufficient
\* funds, or with a Pending bet, it changes no balance and creates no bet.
C16_RepeatSettledBetOfMessage ==
    [][/\ RepeatPressChangesNothing
       /\ ops'["repeat"] # ops["repeat"] =>
             IF \A u \in Users, c \in Chats : ~HasBet(u, c)
             THEN \E t \in threads' \ threads : t.op = "repeat" /\ threads' = threads \cup {t}
             ELSE (\A u \in Users, c \in Chats : HasBet(u, c)) => threads' = threads
       /\ \A t \in threads' \ threads :
             (t.op = "repeat" /\ t.pc = "rd_get_balance") =>
                /\ ~HasBet(t.uid, t.cid)
                /\ \E p \in debited, d \in draws :
                      Settled(p, d) /\ t.amount = p.amount /\ t.covered = p.covered
       /\ RepeatPlacementSteps]_vars

\* C16 witness: 'repeat' was pressed on the result message of a bet that was
\* not the one settled last, and nothing else was asked: that bet is stored
\* again and exactly its amount was debited.
C16_Witness ==
    /\ ops["repeat"] = 1
    /\ NumOps = 1
    /\ threads = {}
    /\ \E r \in bets, p \in debited, d \in draws :
          /\ Settled(p, d)
          /\ ~LastSettled(p, d)
          /\ r.bid # p.bid
          /\ r.amount = p.amount
          /\ CoveredSet(r.covered) = p.covered
          /\ balance[r.user_id] = bal0[r.user_id] - p.amount

\* C17: a spin request for a (chat, user) without a Pending bet, and a spin
\* timer that fires and finds no Pending bet, are no-ops: no outcome is
\* drawn or appended, no balance changes, no bet is created or deleted; the
\* request schedules no timer and the timer ends.
C17_NoBetNoOp ==
    [][/\ (ops'["go"] # ops["go"] /\ \A u \in Users, c \in Chats : ~HasBet(u, c))
          => UNCHANGED <<balance, bets, results, draws, timers>>
       /\ \A tm \in timers \ timers' :
             (tm.pc = "wait" /\ ~HasBet(tm.uid, tm.cid))
             => (timers' = timers \ {tm} /\ UNCHANGED <<balance, bets, results, draws>>)]_vars

\* C17 witness: one wager and two spin requests were made and everything
\* has ended with a single draw: one of the requests found no bet, or its
\* timer fired after the bet was gone, and ended without a draw.
C17_Witness ==
    /\ ops["bet"] = 1
    /\ ops["go"] = 2
    /\ threads = {}
    /\ timers = {}
    /\ bets = {}
    /\ Cardinality(draws) = 1
    /\ Len(results) = 1

\* C18, the part a finite behaviour can refute: while the timer of a spin
\* request waits, the bet the spin was requested for is still Pending, or a
\* timer that has read it is about to draw, or it has been settled; if
\* none of these holds the bet is gone and no later step can settle it.
C18_RequestedBetStaysSettleable ==
    \A tm \in timers :
        tm.pc = "wait" =>
           \/ \E r \in bets : r.bid = tm.seen
           \/ \E t2 \in timers : t2.pc = "add_result" /\ t2.bet.bid = tm.seen
           \/ \E d \in draws : d.bid = tm.seen

\* C19: the repeat/double handler never debits the user and never writes a
\* bet while an active bet exists for that (user, chat), under any
\* interleaving of button presses and text placements.
C19_NoButtonPlacementOverActiveBet ==
    [][\A t \in threads \ threads' :
          (t.op \in {"repeat", "double"} /\ HasBet(t.uid, t.cid)) =>
             /\ t.pc = "rd_add_balance" => balance' = balance
             /\ t.pc = "rd_upsert" => bets' = bets]_vars

\* C20: a bet is settled only by a spin that was requested after that bet
\* was placed: the bet a timer draws for is the bet its request was made
\* for, never a bet stored after the request.
C20_SettledByOwnRequest ==
    \A d \in draws : d.bid = d.seen

\* C21: for each user any two bonus grants are at least 24 hours apart:
\* while less than 24 hours have passed since the start, at most one claim
\* of the user has credited the bonus, under any interleaving of the
\* user's concurrent claims (the bonus is the only credit of SpecBonus).
C21_OneBonusPerCooldown ==
    now - StartTime < BONUS_COOLDOWN_SEC =>
        \A u \in Users : applied[u] <= BONUS_AMOUNT

====
